---------------------------- MODULE Spec2Model ----------------------------
(***************************************************************************)
(* Model of the video-backend service: URL classification, the yt-dlp      *)
(* adapter (VideoDownloader), the /api/fetch route and its exception       *)
(* handlers.  Text is modelled as sequences of one-character strings so    *)
(* that lower-casing and substring search are computed, not assumed.       *)
(***************************************************************************)
EXTENDS Integers, Sequences, FiniteSets, TLC

VARIABLES
    call,       \* the call of a pure function under check: name, argument, result
    req,        \* the fetch request being handled and what became of it
    base_opts,  \* downloader.base_opts, the singleton's option dict
    hits,       \* the limiter's storage: per client address, counter and expiry
    now,        \* the clock the limiter reads
    served,     \* per client, what was let through: in this tick and the one
                \* before, and in the minute that began with the first of them
    calls       \* the get_video_info coroutines running side by side on the
                \* singleton downloader, each with its locals

vars == <<call, req, base_opts, hits, now, served, calls>>

(***************************************************************************)
(* Text                                                                    *)
(***************************************************************************)

\* Python values are tagged: a missing dict key, None, an int, a str (a
\* sequence of one-character strings, or of whole literals where the text is
\* fixed), a float counted in hundredths
Missing == [missing |-> 0]

None == [none |-> 0]

IntV(n) == [int |-> n]

StrV(s) == [str |-> s]

CentiV(n) == [centi |-> n]

ListV(s) == [list |-> s]

DictV(d) == [dict |-> d]

IsInt(x) == DOMAIN x = {"int"}

IsStr(x) == DOMAIN x = {"str"}

IsList(x) == DOMAIN x = {"list"}

IsCenti(x) == DOMAIN x = {"centi"}

\* d.get(k)
Get(x) == IF x = Missing THEN None ELSE x

\* d.get(k, default)
GetD(x, default) == IF x = Missing THEN default ELSE x

\* bool(x)
Truthy(x) ==
    CASE IsInt(x) -> x.int # 0
      [] IsCenti(x) -> x.centi # 0
      [] IsStr(x) -> x.str # <<>>
      [] IsList(x) -> x.list # <<>>
      [] OTHER -> FALSE

\* a or b
Or(a, b) == IF Truthy(a) THEN a ELSE b

LowerLetters == <<"a","b","c","d","e","f","g","h","i","j","k","l","m","n","o","p","q","r","s","t","u","v","w","x","y","z">>

UpperLetters == <<"A","B","C","D","E","F","G","H","I","J","K","L","M","N","O","P","Q","R","S","T","U","V","W","X","Y","Z">>

\* str.lower() on one character
LowerChar(c) ==
    IF \E i \in 1..Len(UpperLetters) : UpperLetters[i] = c
    THEN LowerLetters[CHOOSE i \in 1..Len(UpperLetters) : UpperLetters[i] = c]
    ELSE c

\* str.lower()
Lower(s) == [i \in 1..Len(s) |-> LowerChar(s[i])]

\* `pat in s` / re.search of a literal: pat occurs as a contiguous run of s
Occurs(pat, s) ==
    \E i \in 0..(Len(s) - Len(pat)) :
        \A j \in 1..Len(pat) : s[i + j] = pat[j]

IsSpace(c) == c = " "

RECURSIVE LStrip(_)
LStrip(s) == IF s # <<>> /\ IsSpace(Head(s)) THEN LStrip(Tail(s)) ELSE s

RECURSIVE RStrip(_)
RStrip(s) ==
    IF s # <<>> /\ IsSpace(s[Len(s)]) THEN RStrip(SubSeq(s, 1, Len(s) - 1)) ELSE s

\* str.strip()
Strip(s) == RStrip(LStrip(s))

RECURSIVE Concat(_)
Concat(parts) == IF parts = <<>> THEN <<>> ELSE Head(parts) \o Concat(Tail(parts))

\* all sequences over S of length 0..n
SeqsUpTo(S, n) == UNION {[1..k -> S] : k \in 0..n}

Digits == <<"0","1","2","3","4","5","6","7","8","9">>

RECURSIVE IntChars(_)
\* str(n) of a non-negative int, one character per digit
IntChars(n) ==
    IF n < 10 THEN <<Digits[n + 1]>> ELSE IntChars(n \div 10) \o <<Digits[(n % 10) + 1]>>

(***************************************************************************)
(* Exceptions (app/utils/exceptions.py)                                    *)
(***************************************************************************)

Exc(cls, status, detail) == [cls |-> cls, status |-> status, detail |-> detail]

\* str(e): starlette's HTTPException prints "<status>: <detail>", any other
\* exception prints its message
ExcStr(e) == IF e.status # 0 THEN <<ToString(e.status), ": ">> \o e.detail ELSE e.detail

\* class VideoDownloaderException(HTTPException) and its subclasses
VideoDownloaderExceptions ==
    {"InvalidURLException", "VideoUnavailableException", "DownloadFailedException",
     "RateLimitException", "FileTooLargeException", "TimeoutException"}

IsVideoDownloaderException(e) == e.cls \in VideoDownloaderExceptions

InvalidURLException(url) ==
    Exc("InvalidURLException", 400,
        <<"Haci bu link sorunlu gorunuyor: ">> \o url
            \o <<". Instagram, TikTok veya YouTube linki oldugundan emin ol.">>)

DefaultUnavailable ==
    <<"Video bulunamadi veya ozel hesap. Bot engellemis olabilir, baska link dene.">>

\* VideoUnavailableException(message): message or the default text
VideoUnavailableException(message) ==
    Exc("VideoUnavailableException", 404,
        IF message # <<>> THEN message ELSE DefaultUnavailable)

DownloadFailedException(message) ==
    Exc("DownloadFailedException", 500,
        IF message # <<>> THEN message
        ELSE <<"Indirme sirasinda bir hata olustu. Link gecerli ama sunucu su an sikintili.">>)

FileTooLargeException(size_mb, max_mb) ==
    Exc("FileTooLargeException", 413,
        <<"Video cok buyuk (">> \o IntChars(size_mb) \o <<"MB). Maksimum ">>
            \o IntChars(max_mb) \o <<"MB olmali.">>)

TimeoutException ==
    Exc("TimeoutException", 408,
        <<"Indirme cok uzun surdu. Daha kisa bir video dene veya tekrar deneyebilirsin.">>)

\* fastapi.HTTPException(status_code, detail)
HTTPException(status, detail) == Exc("HTTPException", status, detail)

(***************************************************************************)
(* Platform classifier (VideoDownloader.detect_platform)                   *)
(***************************************************************************)

PLATFORM_PATTERNS ==
    << [platform |-> "instagram",
        alts |-> { <<"i","n","s","t","a","g","r","a","m",".","c","o","m">>,
                   <<"i","n","s","t","a","g","r",".","a","m">> }],
       [platform |-> "tiktok",
        alts |-> { <<"t","i","k","t","o","k",".","c","o","m">>,
                   <<"v","m",".","t","i","k","t","o","k",".","c","o","m">> }],
       [platform |-> "youtube",
        alts |-> { <<"y","o","u","t","u","b","e",".","c","o","m">>,
                   <<"y","o","u","t","u",".","b","e">> }] >>

\* re.search(pattern, s) for a pattern that is an alternation of literals
Search(alts, s) == \E a \in alts : Occurs(a, s)

Returned(v) == [ok |-> TRUE, val |-> v]

Raised(e) == [ok |-> FALSE, exc |-> e]

\* nothing has run yet
NotRun == [ok |-> FALSE, exc |-> [cls |-> "NotRun", status |-> 0, detail |-> <<>>]]

\* mutant: the URL is searched as given, without lower-casing
detect_platform_nolower(url) ==
    IF \E i \in 1..Len(PLATFORM_PATTERNS) : Search(PLATFORM_PATTERNS[i].alts, url)
    THEN Returned(PLATFORM_PATTERNS[
             CHOOSE i \in 1..Len(PLATFORM_PATTERNS) :
                 /\ Search(PLATFORM_PATTERNS[i].alts, url)
                 /\ \A k \in 1..(i - 1) : ~Search(PLATFORM_PATTERNS[k].alts, url)].platform)
    ELSE Raised(InvalidURLException(url))

\* mutant: an unmatched URL is taken for a youtube URL instead of refused
detect_platform_default(url) ==
    LET url_lower == Lower(url)
        hit(i) == Search(PLATFORM_PATTERNS[i].alts, url_lower)
    IN  IF \E i \in 1..Len(PLATFORM_PATTERNS) : hit(i)
        THEN Returned(PLATFORM_PATTERNS[
                 CHOOSE i \in 1..Len(PLATFORM_PATTERNS) :
                     hit(i) /\ \A k \in 1..(i - 1) : ~hit(k)].platform)
        ELSE Returned("youtube")

detect_platform(url) ==
    LET url_lower == Lower(url)
        hit(i) == Search(PLATFORM_PATTERNS[i].alts, url_lower)
    IN  IF \E i \in 1..Len(PLATFORM_PATTERNS) : hit(i)
        THEN Returned(PLATFORM_PATTERNS[
                 CHOOSE i \in 1..Len(PLATFORM_PATTERNS) :
                     hit(i) /\ \A k \in 1..(i - 1) : ~hit(k)].platform)
        ELSE Raised(InvalidURLException(url))

(***************************************************************************)
(* Format selection and projection (VideoDownloader._select_best_format,   *)
(* _parse_formats, _parse_video_info)                                      *)
(***************************************************************************)

\* the "no video track" codec tag
NoVideo == StrV(<<"none">>)

FormatFields ==
    {"format_id", "format_note", "ext", "quality", "filesize", "height",
     "resolution", "fps", "vcodec", "acodec", "url"}

\* the empty dict {}
EmptyFormat == [k \in FormatFields |-> Missing]

AttributeError ==
    Exc("AttributeError", 0, <<"'NoneType' object has no attribute 'lower'">>)

LoopExhausted == Raised(Exc("LoopExhausted", 0, <<>>))

\* str(x) inside an f-string
PyStr(x) ==
    CASE x = None -> <<"N","o","n","e">>
      [] IsInt(x) -> IntChars(x.int)
      [] OTHER -> x.str

\* the sort key of the default rule: (height or 0, filesize or 0)
SortKey(x) == <<Or(Get(x.height), IntV(0)).int, Or(Get(x.filesize), IntV(0)).int>>

KeyGE(a, b) == a[1] > b[1] \/ (a[1] = b[1] /\ a[2] >= b[2])

\* mutant: x goes before the elements of equal key, as after sort() and reverse()
InsertDesc_reversed(sorted, x) ==
    LET k == Cardinality({i \in 1..Len(sorted) :
                             KeyGE(SortKey(sorted[i]), SortKey(x))
                             /\ SortKey(sorted[i]) # SortKey(x)})
    IN  SubSeq(sorted, 1, k) \o <<x>> \o SubSeq(sorted, k + 1, Len(sorted))

\* x goes behind every element whose key is not smaller: stable, descending
InsertDesc(sorted, x) ==
    LET k == Cardinality({i \in 1..Len(sorted) : KeyGE(SortKey(sorted[i]), SortKey(x))})
    IN  SubSeq(sorted, 1, k) \o <<x>> \o SubSeq(sorted, k + 1, Len(sorted))

RECURSIVE SortDesc(_)
\* list.sort(key=..., reverse=True)
SortDesc(s) ==
    IF s = <<>> THEN <<>>
    ELSE InsertDesc(SortDesc(SubSeq(s, 1, Len(s) - 1)), s[Len(s)])

IsVideo(f) == Get(f.vcodec) # NoVideo

RECURSIVE tiktok_scan(_, _)
\* the tiktok loop of _select_best_format, from position i on
tiktok_scan(formats, i) ==
    IF i > Len(formats) THEN LoopExhausted
    ELSE LET fmt == formats[i]
             raw == GetD(fmt.format_note, StrV(<<>>))
         IN  IF ~IsStr(raw) THEN Raised(AttributeError)
             ELSE LET format_note == Lower(raw.str)
                  IN  IF /\ \/ Occurs(<<"d","o","w","n","l","o","a","d">>, format_note)
                            \/ ~Occurs(<<"w","a","t","e","r","m","a","r","k">>, format_note)
                         /\ IsVideo(fmt)
                      THEN Returned(fmt)
                      ELSE tiktok_scan(formats, i + 1)

\* mutant: the sort runs over every descriptor, audio-only ones included
default_rule_unfiltered(formats) == SortDesc(formats)[1]

\* the default rule of _select_best_format
default_rule(formats) ==
    LET video_formats == SelectSeq(formats, IsVideo)
    IN  IF video_formats # <<>> THEN SortDesc(video_formats)[1] ELSE formats[1]

\* formats is a tagged value: None or a list
_select_best_format(formats, platform) ==
    IF ~Truthy(formats) THEN Returned(EmptyFormat)
    ELSE LET scan == IF platform = "tiktok" THEN tiktok_scan(formats.list, 1)
                     ELSE LoopExhausted
         IN  IF scan = LoopExhausted THEN Returned(default_rule(formats.list)) ELSE scan

\* round(filesize / (1024 * 1024), 2), in hundredths of a MB, ties to even
RoundMB(filesize) ==
    LET mib == 1024 * 1024
        whole == filesize \div mib
        frac == (filesize % mib) * 100
        c == whole * 100 + (frac \div mib)
        rest == frac % mib
    IN  IF rest * 2 > mib \/ (rest * 2 = mib /\ c % 2 = 1) THEN c + 1 ELSE c

filesize_mb_of(filesize) ==
    IF Truthy(filesize) THEN CentiV(RoundMB(filesize.int)) ELSE None

\* fmt.get('resolution') or f"{fmt.get('height', 'unknown')}p"
resolution_of(fmt) ==
    Or(Get(fmt.resolution),
       StrV(PyStr(GetD(fmt.height, StrV(<<"u","n","k","n","o","w","n">>))) \o <<"p">>))

parsed_format(fmt) ==
    [format_id |-> Get(fmt.format_id),
     format_note |-> Get(fmt.format_note),
     ext |-> Get(fmt.ext),
     quality |-> Get(fmt.quality),
     filesize |-> Get(fmt.filesize),
     filesize_mb |-> filesize_mb_of(Get(fmt.filesize)),
     resolution |-> resolution_of(fmt),
     fps |-> Get(fmt.fps),
     vcodec |-> Get(fmt.vcodec),
     acodec |-> Get(fmt.acodec)]

\* mutant: the summaries come out best first, like the selector's sort
_parse_formats_sorted(formats) ==
    LET kept == SortDesc(SelectSeq(formats, IsVideo))
    IN  [i \in 1..Len(kept) |-> parsed_format(kept[i])]

_parse_formats(formats) ==
    LET kept == SelectSeq(formats, IsVideo)
    IN  [i \in 1..Len(kept) |-> parsed_format(kept[i])]

Pad2(n) == <<Digits[(n \div 10) + 1], Digits[(n % 10) + 1]>>

\* str(timedelta(seconds=d)).split('.')[0] for a whole number of seconds d >= 0
timedelta_str(d) ==
    LET days == d \div 86400
        secs == d % 86400
        hms == IntChars(secs \div 3600) \o <<":">> \o Pad2((secs % 3600) \div 60)
                   \o <<":">> \o Pad2(secs % 60)
    IN  IF days = 0 THEN hms
        ELSE IntChars(days) \o (IF days = 1 THEN <<" ","d","a","y",","," ">>
                                ELSE <<" ","d","a","y","s",","," ">>) \o hms

DescriptionLimit == 500

AlternatesLimit == 5

\* str.capitalize() on the three platform tags
Capitalize(platform) ==
    CASE platform = "instagram" -> "Instagram"
      [] platform = "tiktok" -> "Tiktok"
      [] platform = "youtube" -> "Youtube"

Prefix(s, n) == SubSeq(s, 1, IF Len(s) < n THEN Len(s) ELSE n)

_parse_video_info(info, platform) ==
    LET formats == GetD(info.formats, ListV(<<>>))
        sel == _select_best_format(formats, platform)
    IN  IF ~sel.ok THEN sel
        ELSE
        LET best_format == sel.val
            duration == GetD(info.duration, IntV(0))
            duration_str == IF Truthy(duration) THEN StrV(timedelta_str(duration.int))
                            ELSE None
            filesize == Or(Get(best_format.filesize), Get(info.filesize))
            direct_url == Or(Get(best_format.url), Get(info.url))
            available_formats == IF Truthy(formats) THEN _parse_formats(formats.list)
                                 ELSE <<>>
        IN  Returned(
              [title |-> GetD(info.title, StrV(<<"Unknown">>)),
               duration |-> duration,
               duration_string |-> duration_str,
               thumbnail |-> Get(info.thumbnail),
               direct_url |-> direct_url,
               platform |-> Capitalize(platform),
               uploader |-> Or(Get(info.uploader), Get(info.channel)),
               view_count |-> Get(info.view_count),
               like_count |-> Get(info.like_count),
               description |-> IF Truthy(Get(info.description))
                               THEN StrV(Prefix(info.description.str, DescriptionLimit))
                               ELSE None,
               filesize_mb |-> filesize_mb_of(filesize),
               resolution |-> resolution_of(best_format),
               ext |-> GetD(best_format.ext, StrV(<<"mp4">>)),
               formats |-> Prefix(available_formats, AlternatesLimit)])


(***************************************************************************)
(* The adapter around the extractor (VideoDownloader.__init__,             *)
(* get_*_opts, get_video_info) and settings (app/config.py)                *)
(***************************************************************************)

MAX_DOWNLOAD_SIZE_MB == 500

DOWNLOAD_TIMEOUT_SECONDS == 300

\* self.base_opts as __init__ builds it
InitialBaseOpts ==
    [quiet |-> TRUE, no_warnings |-> TRUE, extract_flat |-> FALSE,
     socket_timeout |-> IntV(30), retries |-> IntV(3), fragment_retries |-> IntV(3),
     skip_unavailable_fragments |-> TRUE]

\* {**base, **extra}: a new dict, extra's keys win
Merged(base, extra) == extra @@ base

get_tiktok_opts(base) ==
    Merged(base,
        [format |-> "best[ext=mp4][vcodec^=avc1]/best[ext=mp4]/best",
         http_headers |-> "Mozilla/5.0 (Windows NT 10.0; Win64; x64) Chrome/120.0.0.0"])

get_instagram_opts(base) ==
    Merged(base,
        [format |-> "best[ext=mp4]/best",
         http_headers |-> "Mozilla/5.0 (iPhone; CPU iPhone OS 16_0 like Mac OS X)"])

get_youtube_opts(base) ==
    Merged(base,
        [format |-> "bestvideo[ext=mp4]+bestaudio[ext=m4a]/best[ext=mp4]/best",
         merge_output_format |-> "mp4"])

\* mutant: the platform's entries are written into self.base_opts, which is
\* returned
get_platform_opts_inplace(base, platform) ==
    CASE platform = "tiktok" -> [opts |-> get_tiktok_opts(base), aliased |-> TRUE]
      [] platform = "instagram" -> [opts |-> get_instagram_opts(base), aliased |-> TRUE]
      [] platform = "youtube" -> [opts |-> get_youtube_opts(base), aliased |-> TRUE]
      [] OTHER -> [opts |-> base, aliased |-> TRUE]

\* the dict returned, and whether it is self.base_opts itself (the lambda default)
get_platform_opts(base, platform) ==
    CASE platform = "tiktok" -> [opts |-> get_tiktok_opts(base), aliased |-> FALSE]
      [] platform = "instagram" -> [opts |-> get_instagram_opts(base), aliased |-> FALSE]
      [] platform = "youtube" -> [opts |-> get_youtube_opts(base), aliased |-> FALSE]
      [] OTHER -> [opts |-> base, aliased |-> TRUE]

\* ydl_opts['noplaylist'] = True
WithNoPlaylist(opts) == [noplaylist |-> TRUE] @@ opts

InfoFields ==
    {"title", "duration", "thumbnail", "url", "uploader", "channel", "view_count",
     "like_count", "description", "filesize", "formats"}

EmptyInfo == [k \in InfoFields |-> Missing]

\* `not info`
Falsy(info) == info = None \/ info = DictV(EmptyInfo)

\* get_video_info, the try block up to the await: classification and options
gvi_before(base, url) ==
    LET c == detect_platform(url)
    IN  IF ~c.ok THEN c
        ELSE LET got == get_platform_opts(base, c.val)
             IN  Returned([platform |-> c.val,
                           ydl_opts |-> WithNoPlaylist(got.opts),
                           aliased |-> got.aliased])

\* filesize_mb and filesize_mb > max_size
size_exceeds(filesize_mb, max_size) ==
    Truthy(filesize_mb) /\ filesize_mb.centi > max_size * 100

\* get_video_info, the try block from the await on; future is what the
\* executor's future holds: the record returned or the exception raised
gvi_after(future, platform) ==
    IF ~future.ok THEN future
    ELSE LET info == future.val
         IN  IF Falsy(info) THEN Raised(VideoUnavailableException(<<>>))
             ELSE LET parsed == _parse_video_info(info.dict, platform)
                  IN  IF ~parsed.ok THEN parsed
                      ELSE LET filesize_mb == parsed.val.filesize_mb
                               max_size == MAX_DOWNLOAD_SIZE_MB
                           IN  IF size_exceeds(filesize_mb, max_size)
                               THEN Raised(FileTooLargeException(filesize_mb.centi \div 100,
                                                                 max_size))
                               ELSE parsed

\* mutant: the message is sniffed as it is, without lower-casing
error_category_cased(error_msg) ==
    IF \/ Occurs(<<"p","r","i","v","a","t","e">>, error_msg)
       \/ Occurs(<<"n","o","t"," ","a","v","a","i","l","a","b","l","e">>, error_msg)
    THEN "unavailable"
    ELSE IF Occurs(<<"c","o","p","y","r","i","g","h","t">>, error_msg) THEN "copyright"
    ELSE "generic"

\* the failure category of a yt-dlp DownloadError message
error_category(error_msg) ==
    LET l == Lower(error_msg)
    IN  IF \/ Occurs(<<"p","r","i","v","a","t","e">>, l)
           \/ Occurs(<<"n","o","t"," ","a","v","a","i","l","a","b","l","e">>, l)
        THEN "unavailable"
        ELSE IF Occurs(<<"c","o","p","y","r","i","g","h","t">>, l) THEN "copyright"
        ELSE "generic"

\* mutant: without the last except clause, what is not a DownloadError or a
\* timeout leaves get_video_info as it is
gvi_except_open(r) ==
    IF r.ok THEN r
    ELSE CASE r.exc.cls = "DownloadError" ->
                Raised(DownloadFailedException(<<"Indirme hatasi: ">> \o ExcStr(r.exc)))
           [] r.exc.cls = "TimeoutError" -> Raised(TimeoutException)
           [] OTHER -> r

\* get_video_info, the except clauses: what leaves the function
gvi_except(r) ==
    IF r.ok THEN r
    ELSE CASE r.exc.cls = "DownloadError" ->
                LET error_msg == ExcStr(r.exc)
                    cat == error_category(error_msg)
                IN  IF cat = "unavailable"
                    THEN Raised(VideoUnavailableException(<<"Video ozel veya kaldirilmis.">>))
                    ELSE IF cat = "copyright"
                    THEN Raised(VideoUnavailableException(
                                    <<"Video telif hakki nedeniyle kullanilamiyor.">>))
                    ELSE Raised(DownloadFailedException(
                                    <<"Indirme hatasi: ">> \o error_msg))
           [] r.exc.cls = "TimeoutError" -> Raised(TimeoutException)
           [] OTHER ->
                Raised(DownloadFailedException(<<"Beklenmeyen hata: ">> \o ExcStr(r.exc)))

(***************************************************************************)
(* The route (api/routes/download.py), the request schema (models/         *)
(* schemas.py) and the exception handlers (main.py)                        *)
(***************************************************************************)

Supported ==
    { <<"i","n","s","t","a","g","r","a","m",".","c","o","m">>,
      <<"t","i","k","t","o","k",".","c","o","m">>,
      <<"y","o","u","t","u","b","e",".","c","o","m">>,
      <<"y","o","u","t","u",".","b","e">>,
      <<"i","n","s","t","a","g","r",".","a","m">> }

\* VideoInfoRequest.validate_url; a body without a url fails the field itself
validate_url(url) ==
    IF ~IsStr(url)
    THEN Raised(Exc("RequestValidationError", 0, <<"Field required">>))
    ELSE LET v == Strip(url.str)
         IN  IF v = <<>>
             THEN Raised(Exc("RequestValidationError", 0, <<"URL bos olamaz">>))
             ELSE IF ~\E p \in Supported : Occurs(p, Lower(v))
             THEN Raised(Exc("RequestValidationError", 0,
                     <<"Sadece Instagram, TikTok ve YouTube linkleri destekleniyor">>))
             ELSE Returned(v)

\* fetch_video_info, "Handle both GET and POST": video_request is the validated
\* body's url (None without a body), url the query parameter
route_video_url(video_request, url) ==
    IF IsStr(video_request) THEN Returned(video_request.str)
    ELSE IF Truthy(url) THEN Returned(Strip(url.str))
    ELSE Raised(HTTPException(400,
            <<"URL gerekli. POST body'de 'url' veya GET query'de '?url=' kullan.">>))

\* VideoInfoResponse(success=True, **info): the required str fields of
\* VideoInfoResponse and VideoFormat
route_response_model(info) ==
    IF /\ IsStr(info.title) /\ IsStr(info.direct_url) /\ IsStr(info.ext)
       /\ \A i \in 1..Len(info.formats) :
              IsStr(info.formats[i].format_id) /\ IsStr(info.formats[i].ext)
    THEN Returned(info)
    ELSE Raised(Exc("ValidationError", 0,
                    <<"validation error for VideoInfoResponse">>))

\* fetch_video_info, the except clauses
route_except(r) ==
    IF r.ok \/ IsVideoDownloaderException(r.exc) THEN r
    ELSE Raised(HTTPException(500, <<"Sunucu hatasi: ">> \o ExcStr(r.exc)))

NoData == [k \in {} |-> Missing]

Response(status, handler, error, detail, data) ==
    [status |-> status, handler |-> handler, error |-> error, detail |-> detail,
     data |-> data]

NoResponse == Response(0, "none", <<>>, <<>>, NoData)

\* the application's exception handlers, and the 200 response of the route
respond(r) ==
    IF r.ok THEN Response(200, "fetch_video_info", <<>>, <<>>, r.val)
    ELSE LET exc == r.exc
         IN  CASE IsVideoDownloaderException(exc) ->
                    Response(exc.status, "video_downloader_exception_handler",
                             exc.detail, exc.detail, NoData)
               [] exc.cls = "RequestValidationError" ->
                    Response(422, "validation_exception_handler",
                             <<"Gecersiz istek formati">>, exc.detail, NoData)
               [] exc.cls = "RateLimitExceeded" ->
                    Response(429, "rate_limit_handler", <<"Cok fazla istek!">>,
                             <<"Yavas abi! Dakikada en fazla 30 istek atabilirsin. Biraz bekle.">>,
                             NoData)
               [] exc.cls = "HTTPException" ->
                    Response(exc.status, "http_exception_handler", <<>>, exc.detail, NoData)
               [] OTHER ->
                    Response(500, "global_exception_handler", <<"Sunucu hatasi">>,
                             <<"Beklenmeyen bir hata olustu. Gelistiriciler bilgilendirildi.">>,
                             NoData)


(***************************************************************************)
(* Inputs of the classifier                                                *)
(***************************************************************************)

MaxUrlParts == 2

UrlPieces ==
    { <<"i","n","s","t","a","g","r","a","m",".","c","o","m">>,
      <<"I","N","S","T","A","G","R",".","A","M">>,
      <<"T","i","k","T","o","k",".","c","o","m">>,
      <<"v","m",".","t","i","k","t","o","k",".","c","o","m">>,
      <<"Y","o","u","T","u","b","e",".","C","O","M">>,
      <<"y","o","u","t","u",".","b","e">>,
      <<"i","n","v","a","l","i","d","-","s","i","t","e",".","c","o","m">>,
      <<"i","n","s","t","a","g","r","a","m",",","c","o","m">>,
      <<"h","t","t","p","s",":","/","/">>,
      <<" ">> }

Urls == {Concat(p) : p \in SeqsUpTo(UrlPieces, MaxUrlParts)}

(***************************************************************************)
(* Inputs of the format selector                                           *)
(***************************************************************************)

MaxFormats == 2

Platforms == {"instagram", "tiktok", "youtube"}

VcodecChoices == {NoVideo, StrV(<<"avc1">>)}

HeightChoices == {Missing, IntV(720)}

FilesizeChoices == {Missing, IntV(1000)}

NoteChoices ==
    {Missing, None,
     StrV(<<"W","a","t","e","r","m","a","r","k">>),
     StrV(<<"D","o","w","n","l","o","a","d"," ","w","a","t","e","r","m","a","r","k">>)}

\* a descriptor as the extractor reports it; the fields no rule reads stay unset
FormatShapes ==
    {[EmptyFormat EXCEPT !.vcodec = vc, !.height = h, !.filesize = fs, !.format_note = n] :
        vc \in VcodecChoices, h \in HeightChoices, fs \in FilesizeChoices, n \in NoteChoices}

\* the extractor numbers the descriptors of one record: format_id is the position
Numbered(shapes) ==
    [i \in 1..Len(shapes) |-> [shapes[i] EXCEPT !.format_id = StrV(IntChars(i))]]

FormatLists == {Numbered(l) : l \in SeqsUpTo(FormatShapes, MaxFormats)}


(***************************************************************************)
(* Rate limiting: @limiter.limit("30/minute") with key_func =              *)
(* get_remote_address and slowapi's default fixed-window strategy          *)
(***************************************************************************)

RateLimit == 30

\* ticks of the clock in one minute
WindowTicks == 2

\* the clock runs long enough for a window to end and the next to begin
MaxTime == WindowTicks

\* requests a client sends on after it has been refused, per window
MaxRejected == 1

\* requests per window of the client that is not flooding the service
MaxOther == 1

Clients == {"10.0.0.1", "10.0.0.2"}

BusyClient == "10.0.0.1"

NoHits == [count |-> 0, expires |-> 0]

\* the counter is live until its expiry; an expired key is dropped when read
LiveHits(h, t) == IF h.count > 0 /\ h.expires > t THEN h ELSE NoHits

\* key_func: the limiter's key is the client address
limiter_key(c) == c

\* one hit on a fixed window: the counter grows, the window opens at the first
\* hit and lasts a minute; the request passes while the counter is within the limit
limiter_hit(h, t) ==
    LET cur == LiveHits(h, t)
        n == cur.count + 1
    IN  [state |-> [count |-> n,
                    expires |-> IF n = 1 THEN t + WindowTicks ELSE cur.expires],
         allowed |-> n <= RateLimit]

RateLimitExceeded == Exc("RateLimitExceeded", 429, <<"30 per 1 minute">>)

(***************************************************************************)
(* Concurrent get_video_info calls on the singleton downloader: a          *)
(* coroutine runs without interruption up to its await, the extractor      *)
(* runs in a worker thread meanwhile                                       *)
(***************************************************************************)

\* coroutines running side by side
MaxCalls == 2

CallIds == 1..MaxCalls

NewCall ==
    [pc |-> "idle", url |-> <<>>, platform |-> "", ydl_opts |-> [k \in {} |-> Missing],
     aliased |-> FALSE, seen_opts |-> [k \in {} |-> Missing],
     future |-> NotRun, result |-> NotRun]

\* get_video_info(url) starts and runs up to the await (or to the raise)
Begin(i, url) ==
    /\ calls[i].pc = "idle"
    /\ LET before == gvi_before(base_opts, url)
       IN  IF ~before.ok
           THEN /\ calls' = [calls EXCEPT ![i] =
                                [@ EXCEPT !.pc = "done", !.url = url,
                                          !.result = gvi_except(before)]]
                /\ UNCHANGED base_opts
           ELSE /\ calls' = [calls EXCEPT ![i] =
                                [@ EXCEPT !.pc = "awaiting", !.url = url,
                                          !.platform = before.val.platform,
                                          !.ydl_opts = before.val.ydl_opts,
                                          !.aliased = before.val.aliased]]
                \* ydl_opts['noplaylist'] = True writes to self.base_opts when
                \* ydl_opts is that very dict
                /\ base_opts' = IF before.val.aliased THEN before.val.ydl_opts
                                ELSE base_opts
    /\ UNCHANGED <<call, req, hits, now, served>>

\* _extract_info_sync(url, opts) runs in the worker thread with the dict it
\* was handed, as that dict is by then, and returns or raises
Extract(i, outcome) ==
    /\ calls[i].pc = "awaiting"
    /\ calls' = [calls EXCEPT ![i] =
                    [@ EXCEPT !.pc = "ready", !.future = outcome,
                              !.seen_opts = IF calls[i].aliased THEN base_opts
                                           ELSE calls[i].ydl_opts]]
    /\ UNCHANGED <<call, req, base_opts, hits, now, served>>

\* the coroutine resumes after the await and runs to its end
Finish(i) ==
    /\ calls[i].pc = "ready"
    /\ calls' = [calls EXCEPT ![i] =
                    [@ EXCEPT !.pc = "done",
                              !.result = gvi_except(gvi_after(calls[i].future,
                                                            calls[i].platform))]]
    /\ UNCHANGED <<call, req, base_opts, hits, now, served>>

(***************************************************************************)
(* A fetch request, from the client's send to the response                 *)
(***************************************************************************)

NoExc == Exc("", 0, <<>>)

NoOpts == [k \in {} |-> Missing]

NewReq ==
    [pc |-> "idle", client |-> "", method |-> "", url |-> None, video_url |-> None,
     platform |-> "", ydl_opts |-> NoOpts, extractor_calls |-> 0, future |-> NotRun,
     deadline_passed |-> FALSE, limited |-> FALSE, raised |-> NoExc, parsed |-> NotRun,
     gvi |-> NotRun, response |-> NoResponse]

NoServed == [tick |-> <<0, 0>>, opened |-> -1, window |-> 0]

\* one more request of a client let through at time t: a minute begins with the
\* first request let through after the minute before has ended
LetThrough(s, t) ==
    LET fresh == s.opened < 0 \/ t >= s.opened + WindowTicks
    IN  [tick |-> <<s.tick[1] + 1, s.tick[2]>>,
         opened |-> IF fresh THEN t ELSE s.opened,
         window |-> IF fresh THEN 1 ELSE s.window + 1]

\* the clock moves on to time t
Elapsed(s, t) ==
    LET over == s.opened >= 0 /\ t >= s.opened + WindowTicks
    IN  [tick |-> <<0, s.tick[1]>>,
         opened |-> IF over THEN -1 ELSE s.opened,
         window |-> IF over THEN 0 ELSE s.window]

ServiceInit ==
    /\ call = [fn |-> "none", arg |-> <<>>, done |-> TRUE, ret |-> NotRun]
    /\ req = NewReq
    /\ base_opts = InitialBaseOpts
    /\ hits = [k \in Clients |-> NoHits]
    /\ now = 0
    /\ served = [c \in Clients |-> NoServed]
    /\ calls = [i \in CallIds |-> NewCall]

\* the client sends POST /api/fetch with body {"url": u} or GET /api/fetch?url=u
\* (u = None: no url given)
Submit(c, m, u) ==
    /\ req.pc = "idle"
    /\ LiveHits(hits[limiter_key(c)], now).count < RateLimit + MaxRejected
    /\ req' = [NewReq EXCEPT !.pc = "received", !.client = c, !.method = m, !.url = u]
    /\ UNCHANGED <<call, calls, base_opts, hits, now, served>>

Finished(r, resp) == [r EXCEPT !.pc = "responded", !.response = resp]

\* the server handles the request up to the await in get_video_info: body
\* validation, then the limiter, then the route and the classification
Dispatch ==
    /\ req.pc = "received"
    /\ LET body == IF req.method = "POST" THEN validate_url(req.url) ELSE Returned(None)
           key == limiter_key(req.client)
           lim == limiter_hit(hits[key], now)
           video_request == IF body.ok /\ req.method = "POST" THEN StrV(body.val) ELSE None
           url == IF req.method = "GET" THEN req.url ELSE None
           v == route_video_url(video_request, url)
           before == IF v.ok THEN gvi_before(base_opts, v.val) ELSE NotRun
           gvi == gvi_except(before)
       IN  IF ~body.ok
           THEN /\ req' = Finished(req, respond(body))
                /\ UNCHANGED <<base_opts, hits, served>>
           ELSE /\ hits' = [hits EXCEPT ![key] = lim.state]
                /\ IF ~lim.allowed
                   THEN /\ req' = Finished([req EXCEPT !.limited = TRUE],
                                           respond(Raised(RateLimitExceeded)))
                        /\ UNCHANGED <<base_opts, served>>
                   ELSE /\ served' = [served EXCEPT ![req.client] = LetThrough(@, now)]
                        /\ IF ~v.ok
                           THEN /\ req' = Finished([req EXCEPT !.raised = v.exc],
                                                   respond(route_except(v)))
                                /\ UNCHANGED base_opts
                           ELSE IF ~before.ok
                           THEN /\ req' = Finished([req EXCEPT !.video_url = StrV(v.val),
                                                               !.raised = before.exc,
                                                               !.gvi = gvi],
                                                   respond(route_except(gvi)))
                                /\ UNCHANGED base_opts
                           ELSE /\ req' = [req EXCEPT !.pc = "extracting",
                                                      !.video_url = StrV(v.val),
                                                      !.platform = before.val.platform,
                                                      !.ydl_opts = before.val.ydl_opts,
                                                      !.extractor_calls = @ + 1]
                                /\ base_opts' = IF before.val.aliased
                                                THEN before.val.ydl_opts ELSE base_opts
    /\ UNCHANGED <<call, calls, now>>

\* _extract_info_sync returns in its worker thread
ExtractorReturns(info) ==
    /\ req.pc = "extracting"
    /\ req' = [req EXCEPT !.pc = "resuming", !.future = Returned(info)]
    /\ UNCHANGED <<call, calls, base_opts, hits, now, served>>

\* _extract_info_sync raises in its worker thread
ExtractorRaises(e) ==
    /\ req.pc = "extracting"
    /\ req' = [req EXCEPT !.pc = "resuming", !.future = Raised(e)]
    /\ UNCHANGED <<call, calls, base_opts, hits, now, served>>

\* DOWNLOAD_TIMEOUT_SECONDS pass while the extractor runs; nothing in
\* get_video_info waits on a timer, so the request is left as it is
DeadlineElapses ==
    /\ req.pc = "extracting"
    /\ ~req.deadline_passed
    /\ req' = [req EXCEPT !.deadline_passed = TRUE]
    /\ UNCHANGED <<call, calls, base_opts, hits, now, served>>

\* the request once get_video_info has resumed with the future's outcome, the
\* route has built the response model and the handlers have turned what is
\* raised into the response
Resumed(r) ==
    LET after == gvi_after(r.future, r.platform)
        gvi == gvi_except(after)
        model == IF gvi.ok THEN route_response_model(gvi.val) ELSE gvi
        parsed == IF r.future.ok /\ ~Falsy(r.future.val)
                  THEN _parse_video_info(r.future.val.dict, r.platform)
                  ELSE NotRun
        raised == IF ~after.ok THEN after.exc
                  ELSE IF ~model.ok THEN model.exc ELSE NoExc
    IN  Finished([r EXCEPT !.raised = raised, !.parsed = parsed, !.gvi = gvi],
                 respond(route_except(model)))

\* mutant: a call the extractor failed is tried once more
Resume_retry ==
    /\ req.pc = "resuming"
    /\ req' = IF ~req.future.ok /\ req.extractor_calls < 2
              THEN [req EXCEPT !.pc = "extracting", !.future = NotRun,
                               !.extractor_calls = @ + 1]
              ELSE Resumed(req)
    /\ UNCHANGED <<call, calls, base_opts, hits, now, served>>

\* the worker thread is done: get_video_info and the route run to the response
Resume ==
    /\ req.pc = "resuming"
    /\ req' = Resumed(req)
    /\ UNCHANGED <<call, calls, base_opts, hits, now, served>>

\* the connection is done with; the next request can come
Recycle ==
    /\ req.pc = "responded"
    /\ req' = NewReq
    /\ UNCHANGED <<call, calls, base_opts, hits, now, served>>

\* the clock advances by one tick; the storage drops the counters that expire
Tick ==
    /\ now < MaxTime
    /\ now' = now + 1
    /\ hits' = [k \in Clients |-> LiveHits(hits[k], now + 1)]
    /\ served' = [c \in Clients |-> Elapsed(served[c], now + 1)]
    /\ UNCHANGED <<call, calls, req, base_opts>>

(***************************************************************************)
(* Inputs of the service                                                   *)
(***************************************************************************)

MaxPipeFormats == 1

MaxMsgParts == 2

Methods == {"GET", "POST"}

RequestUrls ==
    {None, StrV(<<>>),
     StrV(<<" ","y","o","u","t","u",".","b","e","/","x"," ">>),
     StrV(<<"T","i","k","T","o","k",".","c","o","m">>),
     StrV(<<"h","t","t","p","s",":","/","/","i","n","s","t","a","g","r","a","m",".","c","o","m">>),
     StrV(<<"i","n","v","a","l","i","d","-","s","i","t","e",".","c","o","m">>)}

SizeAtLimit == MAX_DOWNLOAD_SIZE_MB * 1024 * 1024

PipeFormatShapes ==
    {[EmptyFormat EXCEPT !.vcodec = vc, !.filesize = fs, !.url = u, !.format_note = n,
                         !.ext = StrV(<<"mp4">>)] :
        vc \in VcodecChoices,
        fs \in {Missing, IntV(SizeAtLimit), IntV(SizeAtLimit + 5243)},
        u \in {Missing, StrV(<<"https://cdn/format">>)},
        n \in {Missing, None}}

PipeInfos ==
    {None, DictV(EmptyInfo)} \cup
    {DictV([EmptyInfo EXCEPT !.title = StrV(<<"t">>), !.url = u, !.filesize = fs,
                             !.formats = f]) :
        u \in {Missing, StrV(<<"https://cdn/top">>)},
        fs \in {Missing, IntV(SizeAtLimit + 1024 * 1024)},
        f \in {Missing, None} \cup
              {ListV(Numbered(l)) : l \in SeqsUpTo(PipeFormatShapes, MaxPipeFormats)}}

MsgPieces ==
    { <<"P","r","i","v","a","t","e">>,
      <<"N","o","t"," ","A","v","a","i","l","a","b","l","e">>,
      <<"C","o","p","y","R","i","g","h","t">>,
      <<"E","R","R","O","R",":"," ">>,
      <<"n","o","t","a","v","a","i","l","a","b","l","e">> }

DownloadErrors ==
    {Exc("DownloadError", 0, Concat(p)) : p \in SeqsUpTo(MsgPieces, MaxMsgParts)}

OtherErrors ==
    {Exc("TimeoutError", 0, <<>>),
     Exc("KeyError", 0, <<"s","e","c","r","e","t">>),
     Exc("OSError", 0, <<"/","e","t","c","/","k","e","y">>)}

Next ==
    \/ \E c \in Clients, m \in Methods, u \in RequestUrls : Submit(c, m, u)
    \/ Dispatch
    \/ \E info \in PipeInfos : ExtractorReturns(info)
    \/ \E e \in DownloadErrors \cup OtherErrors : ExtractorRaises(e)
    \/ DeadlineElapses
    \/ Resume

Spec == ServiceInit /\ [][Next]_vars


(***************************************************************************)
(* The service under sustained load: requests follow one another, the      *)
(* clock advances                                                          *)
(***************************************************************************)

RateRequests ==
    { <<"GET", StrV(<<"y","o","u","t","u",".","b","e","/","x">>)>>,
      <<"POST", StrV(<<"i","n","v","a","l","i","d",".","c","o","m">>)>> }

RateInfo ==
    DictV([EmptyInfo EXCEPT !.title = StrV(<<"t">>),
                            !.url = StrV(<<"https://cdn/top">>)])

\* the busy client sends as it likes, the other one a few requests per window
RateSubmit(c, m, u) ==
    /\ c = BusyClient \/ LiveHits(hits[limiter_key(c)], now).count < MaxOther
    /\ Submit(c, m, u)

RateNext ==
    \/ \E c \in Clients, r \in RateRequests : RateSubmit(c, r[1], r[2])
    \/ Dispatch
    \/ ExtractorReturns(RateInfo)
    \/ Resume
    \/ Recycle
    \/ Tick

SpecRate == ServiceInit /\ [][RateNext]_vars

(***************************************************************************)
(* The downloader under concurrent calls                                   *)
(***************************************************************************)

CallUrls ==
    { <<"y","o","u","t","u",".","b","e","/","x">>,
      <<"T","i","k","T","o","k",".","c","o","m">>,
      <<"i","n","s","t","a","g","r",".","a","m">>,
      <<"i","n","v","a","l","i","d","-","s","i","t","e",".","c","o","m">> }

CallOutcomes ==
    {Returned(RateInfo), Returned(None),
     Raised(Exc("DownloadError", 0, <<"P","r","i","v","a","t","e">>))}

ConcurrentNext ==
    \/ \E i \in CallIds, u \in CallUrls : Begin(i, u)
    \/ \E i \in CallIds, o \in CallOutcomes : Extract(i, o)
    \/ \E i \in CallIds : Finish(i)

SpecConcurrent == ServiceInit /\ [][ConcurrentNext]_vars

(***************************************************************************)
(* Specification of the pure functions: Init draws a call, Apply runs it   *)
(***************************************************************************)

ClassifyInit ==
    /\ call \in {[fn |-> "detect_platform", arg |-> u, done |-> FALSE, ret |-> NotRun] :
                    u \in Urls}
    /\ req = NewReq
    /\ base_opts = InitialBaseOpts
    /\ hits = [k \in Clients |-> NoHits]
    /\ now = 0
    /\ served = [c \in Clients |-> NoServed]
    /\ calls = [i \in CallIds |-> NewCall]

ApplyClassify ==
    /\ call.fn = "detect_platform"
    /\ ~call.done
    /\ call' = [call EXCEPT !.done = TRUE, !.ret = detect_platform(call.arg)]
    /\ UNCHANGED <<req, base_opts, hits, now, served, calls>>

ClassifyNext == ApplyClassify

SpecClassify == ClassifyInit /\ [][ClassifyNext]_vars

SelectInit ==
    /\ call \in {[fn |-> "_select_best_format", arg |-> <<ListV(l), p>>, done |-> FALSE,
                  ret |-> NotRun] : l \in FormatLists, p \in Platforms}
    /\ req = NewReq
    /\ base_opts = InitialBaseOpts
    /\ hits = [k \in Clients |-> NoHits]
    /\ now = 0
    /\ served = [c \in Clients |-> NoServed]
    /\ calls = [i \in CallIds |-> NewCall]

ApplySelect ==
    /\ call.fn = "_select_best_format"
    /\ ~call.done
    /\ call' = [call EXCEPT !.done = TRUE,
                            !.ret = _select_best_format(call.arg[1], call.arg[2])]
    /\ UNCHANGED <<req, base_opts, hits, now, served, calls>>

SelectNext == ApplySelect

SpecSelect == SelectInit /\ [][SelectNext]_vars

(***************************************************************************)
(* Inputs of the projection (_parse_video_info)                            *)
(***************************************************************************)

\* longest format list projected: one more than the alternates kept
MaxAlternates == 6

\* durations from 0 up to this many seconds, and a few long ones
MaxDuration == 61

\* descriptors that differ in codec and height only
AlternateShapes ==
    {[EmptyFormat EXCEPT !.vcodec = vc, !.height = h] :
        vc \in VcodecChoices, h \in {IntV(720), IntV(1080)}}

AlternateInfos ==
    {[EmptyInfo EXCEPT !.formats = ListV(Numbered(l))] :
        l \in SeqsUpTo(AlternateShapes, MaxAlternates)}

\* one descriptor, with or without a resolution and a height
LabelShapes ==
    {[EmptyFormat EXCEPT !.vcodec = vc, !.height = h, !.resolution = r] :
        vc \in VcodecChoices,
        h \in {Missing, None, IntV(0), IntV(720)},
        r \in {Missing, None, StrV(<<>>), StrV(<<"6","4","0","x","3","6","0">>)}}

LabelInfos ==
    {[EmptyInfo EXCEPT !.formats = f] :
        f \in {Missing, None, ListV(<<>>)} \cup {ListV(Numbered(<<x>>)) : x \in LabelShapes}}

Durations ==
    {Missing, None} \cup {IntV(d) : d \in (0..MaxDuration) \cup {125, 3599, 3600, 3725, 90061}}

DurationInfos == {[EmptyInfo EXCEPT !.duration = d] : d \in Durations}

ProjectInit ==
    /\ call \in {[fn |-> "_parse_video_info", arg |-> <<i, p>>, done |-> FALSE,
                  ret |-> NotRun] :
                    i \in AlternateInfos \cup LabelInfos \cup DurationInfos, p \in Platforms}
    /\ req = NewReq
    /\ base_opts = InitialBaseOpts
    /\ hits = [k \in Clients |-> NoHits]
    /\ now = 0
    /\ served = [c \in Clients |-> NoServed]
    /\ calls = [i \in CallIds |-> NewCall]

ApplyProject ==
    /\ call.fn = "_parse_video_info"
    /\ ~call.done
    /\ call' = [call EXCEPT !.done = TRUE,
                            !.ret = _parse_video_info(call.arg[1], call.arg[2])]
    /\ UNCHANGED <<req, base_opts, hits, now, served, calls>>

ProjectNext == ApplyProject

SpecProject == ProjectInit /\ [][ProjectNext]_vars

\* C1: detect_platform(url) returns the first of instagram, tiktok, youtube
\* whose pattern occurs in the lower-cased URL, and raises InvalidURLException
\* (400) exactly when none occurs.
C1_FirstMatchWins ==
    (call.fn = "detect_platform" /\ call.done) =>
        LET l == Lower(call.arg)
            inst == \/ Occurs(<<"i","n","s","t","a","g","r","a","m",".","c","o","m">>, l)
                    \/ Occurs(<<"i","n","s","t","a","g","r",".","a","m">>, l)
            tik == \/ Occurs(<<"t","i","k","t","o","k",".","c","o","m">>, l)
                   \/ Occurs(<<"v","m",".","t","i","k","t","o","k",".","c","o","m">>, l)
            yt == \/ Occurs(<<"y","o","u","t","u","b","e",".","c","o","m">>, l)
                  \/ Occurs(<<"y","o","u","t","u",".","b","e">>, l)
        IN  /\ inst => call.ret = Returned("instagram")
            /\ (~inst /\ tik) => call.ret = Returned("tiktok")
            /\ (~inst /\ ~tik /\ yt) => call.ret = Returned("youtube")
            /\ (~inst /\ ~tik /\ ~yt) <=> ~call.ret.ok
            /\ ~call.ret.ok =>
                   call.ret.exc.cls = "InvalidURLException" /\ call.ret.exc.status = 400

\* a mixed-case URL naming youtube before instagram is classified instagram
C1_Witness ==
    /\ call.fn = "detect_platform" /\ call.done
    /\ call.arg # Lower(call.arg)
    /\ Occurs(<<"y","o","u","t","u","b","e",".","c","o","m">>, Lower(call.arg))
    /\ Occurs(<<"i","n","s","t","a","g","r",".","a","m">>, Lower(call.arg))
    /\ call.arg[1] = "Y"
    /\ call.ret = Returned("instagram")

(***************************************************************************)
(* Properties of the request handling                                      *)
(***************************************************************************)

\* some platform rule matches the lower-cased text
MatchesARule(text) ==
    LET l == Lower(text)
    IN  \/ Occurs(<<"i","n","s","t","a","g","r","a","m",".","c","o","m">>, l)
        \/ Occurs(<<"i","n","s","t","a","g","r",".","a","m">>, l)
        \/ Occurs(<<"t","i","k","t","o","k",".","c","o","m">>, l)
        \/ Occurs(<<"y","o","u","t","u","b","e",".","c","o","m">>, l)
        \/ Occurs(<<"y","o","u","t","u",".","b","e">>, l)

\* C2: a request (POST body or GET query) whose URL matches no platform rule
\* is answered with the unsupported-platform error, HTTP 400.
C2_UnsupportedIs400 ==
    (req.pc = "responded" /\ IsStr(req.url) /\ Strip(req.url.str) # <<>>
        /\ ~MatchesARule(req.url.str) /\ ~req.limited) =>
        req.response.status = 400

\* C3: get_video_info ends with FileTooLarge (413) exactly when the projected
\* filesize_mb is known and strictly above the limit of 500 MB.
C3_TooLargeIs413 ==
    (req.pc = "responded" /\ req.parsed.ok) =>
        LET mb == req.parsed.val.filesize_mb
        IN  (~req.gvi.ok /\ req.gvi.exc.cls = "FileTooLargeException"
                /\ req.gvi.exc.status = 413)
            <=> (IsCenti(mb) /\ mb.centi > 500 * 100)

\* C4: a request whose extractor call outlived the deadline ends with the
\* Timeout error, HTTP 408.
C4_DeadlineGivesTimeout ==
    (req.pc = "responded" /\ req.deadline_passed) =>
        (~req.gvi.ok /\ req.gvi.exc.cls = "TimeoutException"
            /\ req.response.status = 408)

\* C5: get_video_info never returns a record without a direct URL.
C5_DirectUrlPresent ==
    (req.pc = "responded" /\ req.gvi.ok) =>
        (IsStr(req.gvi.val.direct_url) /\ req.gvi.val.direct_url.str # <<>>)

\* C7: the extractor is invoked only for a request whose URL has been classified
\* to a platform tag; a request with an unmapped URL never reaches it.
C7_ClassifiedBeforeExtraction ==
    /\ req.extractor_calls > 0 =>
           /\ req.platform \in {"instagram", "tiktok", "youtube"}
           /\ IsStr(req.url) /\ MatchesARule(req.url.str)
    /\ (req.pc # "idle" /\ ~(IsStr(req.url) /\ MatchesARule(req.url.str))) =>
           (req.extractor_calls = 0 /\ req.pc \in {"received", "responded"})

\* the extractor runs for a mixed-case tiktok URL
C7_Witness ==
    /\ req.pc = "extracting" /\ req.extractor_calls = 1
    /\ req.platform = "tiktok"
    /\ req.url.str # Lower(req.url.str)

UnexpectedClasses == {"KeyError", "OSError", "AttributeError", "ValidationError"}

\* C8: an unexpected exception is answered with an opaque generic server error:
\* no text of the exception shows in the response.
C8_OpaqueUnexpected ==
    (req.pc = "responded" /\ req.raised.cls \in UnexpectedClasses) =>
        /\ req.response.status = 500
        /\ ~Occurs(req.raised.detail, req.response.detail)
        /\ ~Occurs(req.raised.detail, req.response.error)

CategoryOf(msg) ==
    LET l == Lower(msg)
    IN  IF \/ Occurs(<<"p","r","i","v","a","t","e">>, l)
           \/ Occurs(<<"n","o","t"," ","a","v","a","i","l","a","b","l","e">>, l)
        THEN 1
        ELSE IF Occurs(<<"c","o","p","y","r","i","g","h","t">>, l) THEN 2 ELSE 3

FailedWithDownloadError ==
    req.pc = "responded" /\ ~req.future.ok /\ req.future.exc.cls = "DownloadError"

\* C9 as claimed: the three failure categories are mapped to three pairwise
\* distinct outward-facing errors (error kind and HTTP status).
C9_ThreeDistinctErrors ==
    FailedWithDownloadError =>
        \A e \in DownloadErrors :
            CategoryOf(e.detail) # CategoryOf(req.future.exc.detail) =>
                LET other == gvi_except(Raised(e)).exc
                IN  <<other.cls, other.status>> # <<req.gvi.exc.cls, req.gvi.exc.status>>

\* C9 as amended: a failure message falls, case-insensitively, in exactly one
\* category; unavailable/private and copyright-restricted both leave as
\* VideoUnavailable (404) and differ in their message only, generic failure
\* leaves as DownloadFailed (500); the three responses are pairwise distinct.
C9_CategoriesAndErrors ==
    FailedWithDownloadError =>
        LET msg == req.future.exc.detail
            cat == CategoryOf(msg)
        IN  /\ cat = 1 => req.gvi.exc =
                   Exc("VideoUnavailableException", 404, <<"Video ozel veya kaldirilmis.">>)
            /\ cat = 2 => req.gvi.exc =
                   Exc("VideoUnavailableException", 404,
                       <<"Video telif hakki nedeniyle kullanilamiyor.">>)
            /\ cat = 3 => req.gvi.exc =
                   Exc("DownloadFailedException", 500, <<"Indirme hatasi: ">> \o msg)
            /\ req.response.status = req.gvi.exc.status
            /\ req.response.detail = req.gvi.exc.detail
            /\ \A e \in DownloadErrors :
                   CategoryOf(e.detail) # cat =>
                       respond(route_except(gvi_except(Raised(e)))) # req.response

\* a message naming both copyright and privacy, in capitals: unavailable/private
C9_Witness ==
    /\ FailedWithDownloadError
    /\ Occurs(<<"C","o","p","y","R","i","g","h","t">>, req.future.exc.detail)
    /\ Occurs(<<"P","r","i","v","a","t","e">>, req.future.exc.detail)
    /\ req.response.status = 404
    /\ req.response.detail = <<"Video ozel veya kaldirilmis.">>

\* a copyright message: the same error kind as unavailable/private
C9_WitnessCopyright ==
    /\ FailedWithDownloadError
    /\ CategoryOf(req.future.exc.detail) = 2
    /\ req.gvi.exc.cls = "VideoUnavailableException"

\* C6: on a non-empty list, for every platform, a descriptor returned by
\* _select_best_format has vcodec 'none' only if every descriptor of the list has.
C6_VideoPreferred ==
    (call.fn = "_select_best_format" /\ call.done /\ call.arg[1].list # <<>>
        /\ call.ret.ok) =>
        /\ \E i \in 1..Len(call.arg[1].list) : call.arg[1].list[i] = call.ret.val
        /\ call.ret.val.vcodec = StrV(<<"none">>) =>
               \A i \in 1..Len(call.arg[1].list) :
                   call.arg[1].list[i].vcodec = StrV(<<"none">>)

\* an audio-only descriptor comes first, a video descriptor is returned
C6_Witness ==
    /\ call.fn = "_select_best_format" /\ call.done /\ call.ret.ok
    /\ Len(call.arg[1].list) >= 2
    /\ call.arg[1].list[1].vcodec = StrV(<<"none">>)
    /\ call.ret.val = call.arg[1].list[2]

\* only audio-only descriptors: the first one is returned as the last resort
C6_WitnessAllAudio ==
    /\ call.fn = "_select_best_format" /\ call.done /\ call.ret.ok
    /\ Len(call.arg[1].list) >= 2
    /\ call.ret.val.vcodec = StrV(<<"none">>)

\* C17: within one request the extractor is invoked at most once; no error
\* outcome makes get_video_info or the route call it again.
C17_ExtractorAtMostOnce ==
    /\ req.extractor_calls <= 1
    /\ (req.pc \in {"resuming", "responded"} /\ req.platform # "") =>
           req.extractor_calls = 1

\* the extractor has failed with a timeout, the request is answered 408 after
\* one extractor call
C17_Witness ==
    /\ req.pc = "responded"
    /\ ~req.future.ok /\ req.future.exc.cls = "TimeoutError"
    /\ req.response.status = 408
    /\ req.extractor_calls = 1

\* C18: when the extractor returns an empty or null record without raising,
\* get_video_info ends with the VideoUnavailable error (404).
C18_EmptyRecordIsUnavailable ==
    (req.pc = "responded" /\ req.future.ok /\ Falsy(req.future.val)) =>
        /\ ~req.gvi.ok
        /\ req.gvi.exc.cls = "VideoUnavailableException"
        /\ req.gvi.exc.status = 404

NormalizedFields ==
    {"title", "duration", "duration_string", "thumbnail", "direct_url", "platform",
     "uploader", "view_count", "like_count", "description", "filesize_mb",
     "resolution", "ext", "formats"}

\* the route has called get_video_info and the call is over
GviCompleted == req.pc = "responded" /\ req.gvi # NotRun

\* C19: whatever the URL and whatever the extractor does, a completed
\* get_video_info call has one outcome: a normalized record, or one of the
\* VideoDownloaderException kinds; nothing else leaves it.
C19_OneRecognizedOutcome ==
    GviCompleted =>
        IF req.gvi.ok
        THEN DOMAIN req.gvi.val = NormalizedFields
        ELSE /\ req.gvi.exc.cls \in
                   {"InvalidURLException", "VideoUnavailableException",
                    "DownloadFailedException", "FileTooLargeException",
                    "TimeoutException"}
             /\ req.gvi.exc.status \in {400, 404, 408, 413, 500}

\* the extractor has raised a KeyError; DownloadFailed leaves get_video_info
C19_Witness ==
    /\ GviCompleted
    /\ ~req.future.ok /\ req.future.exc.cls = "KeyError"
    /\ req.gvi = Raised(DownloadFailedException(
                            <<"Beklenmeyen hata: ">> \o req.future.exc.detail))

\* ---------------------------------------------------------------------------
\* properties of concurrent calls (SpecConcurrent)
\* ---------------------------------------------------------------------------

\* the options of a call for the platform, built from the options __init__ set
OwnOpts(platform) == WithNoPlaylist(get_platform_opts(InitialBaseOpts, platform).opts)

\* C13: under every interleaving of concurrent get_video_info calls no call
\* modifies state visible to another: base_opts stays as __init__ built it,
\* each call works on (and its extractor sees) its own options dict, and two
\* calls with the same URL and the same extractor outcome end alike.
C13_NoSharedState ==
    /\ base_opts = InitialBaseOpts
    /\ \A i \in CallIds :
          /\ calls[i].platform # "" =>
                 /\ ~calls[i].aliased
                 /\ calls[i].ydl_opts = OwnOpts(calls[i].platform)
                 /\ "http_headers" \in DOMAIN calls[i].ydl_opts
                        <=> calls[i].platform \in {"tiktok", "instagram"}
          /\ (calls[i].pc \in {"ready", "done"} /\ calls[i].platform # "") =>
                 calls[i].seen_opts = OwnOpts(calls[i].platform)
    /\ \A i, j \in CallIds :
          (calls[i].pc = "done" /\ calls[j].pc = "done"
              /\ calls[i].url = calls[j].url /\ calls[i].future = calls[j].future) =>
              calls[i].result = calls[j].result

\* a tiktok call waits for its extractor while a youtube call on the same downloader
\* has returned its record
C13_Witness ==
    /\ calls[1].pc = "awaiting" /\ calls[1].platform = "tiktok"
    /\ calls[2].pc = "done" /\ calls[2].platform = "youtube"
    /\ calls[2].result.ok
    /\ "http_headers" \notin DOMAIN calls[2].ydl_opts

Selected == call.fn = "_select_best_format" /\ call.done /\ call.arg[1].list # <<>>

\* a value that is missing, None or 0 counts as 0
OrZero(x) == IF DOMAIN x = {"int"} THEN x.int ELSE 0

\* descriptor a ranks at least as high as b on (height, filesize)
RanksGE(a, b) ==
    \/ OrZero(a.height) > OrZero(b.height)
    \/ OrZero(a.height) = OrZero(b.height) /\ OrZero(a.filesize) >= OrZero(b.filesize)

HasVideo(f) == f.vcodec # StrV(<<"none">>)

\* the note of a descriptor as text, lower-cased; no note is the empty text
NoteText(f) == IF DOMAIN f.format_note = {"str"} THEN Lower(f.format_note.str) ELSE <<>>

\* step 1 of the tiktok rule accepts the descriptor
Qualifies(f) ==
    /\ HasVideo(f)
    /\ \/ Occurs(<<"d","o","w","n","l","o","a","d">>, NoteText(f))
       \/ ~Occurs(<<"w","a","t","e","r","m","a","r","k">>, NoteText(f))

\* step 1 has looked at every descriptor and accepted none
StepOneAcceptsNothing(l) ==
    \A i \in 1..Len(l) : l[i].format_note # None /\ ~Qualifies(l[i])

\* the position of the first descriptor with a video codec that no other such
\* descriptor outranks
BestVideoAt(l) ==
    CHOOSE i \in 1..Len(l) :
        /\ HasVideo(l[i])
        /\ \A j \in 1..Len(l) : HasVideo(l[j]) => RanksGE(l[i], l[j])
        /\ \A j \in 1..(i - 1) : HasVideo(l[j]) => ~RanksGE(l[j], l[i])

FirstQualifyingAt(l) ==
    CHOOSE i \in 1..Len(l) :
        Qualifies(l[i]) /\ \A j \in 1..(i - 1) : ~Qualifies(l[j])

\* C15: for tiktok and a non-empty list, notes being optional, the result is
\* the first descriptor in input order with a video codec whose lower-cased
\* note contains 'download' or does not contain 'watermark'; when there is
\* none, the result is the default rule's on the same list.
C15_TiktokFirstClean ==
    LET l == call.arg[1].list
    IN  (Selected /\ call.arg[2] = "tiktok") =>
            IF \E i \in 1..Len(l) : Qualifies(l[i])
            THEN call.ret = Returned(l[FirstQualifyingAt(l)])
            ELSE call.ret = Returned(default_rule(l))

\* ---------------------------------------------------------------------------
\* properties of the service under sustained load (SpecRate)
\* ---------------------------------------------------------------------------

\* the requests of a client let through in this tick and the one before: two
\* consecutive ticks never span more than a minute
ServedLastMinute(c) == served[c].tick[1] + served[c].tick[2]

\* C10: of each client address at most 30 requests are served within any one
\* minute; a request refused by the limiter is answered with 429 and never
\* reaches the extractor, and the client that sends little is never refused
\* because of what the busy one has sent
C10_AtMostThirtyPerMinute ==
    /\ \A c \in Clients : ServedLastMinute(c) <= RateLimit
    /\ (req.pc = "responded" /\ req.limited)
          => /\ req.response.status = 429
             /\ req.extractor_calls = 0
             /\ req.client = BusyClient

\* ---------------------------------------------------------------------------
\* properties of the projection (SpecProject)
\* ---------------------------------------------------------------------------

Projected == call.fn = "_parse_video_info" /\ call.done /\ call.ret.ok

\* the raw format list of the projected record, [] when there is none
RawFormats ==
    IF IsList(call.arg[1].formats) THEN call.arg[1].formats.list ELSE <<>>

\* the position in the raw list of the k-th descriptor with a video codec
VideoAt(raw, k) ==
    CHOOSE i \in 1..Len(raw) :
        /\ raw[i].vcodec # StrV(<<"none">>)
        /\ Cardinality({j \in 1..i : raw[j].vcodec # StrV(<<"none">>)}) = k

\* C11: the formats of the normalized record are the summaries of the first
\* min(5, n) descriptors with a video codec, in input order: at most 5, none
\* of them audio-only, never re-sorted.
C11_AlternatesFirstFive ==
    Projected =>
        LET raw == RawFormats
            n == Cardinality({i \in 1..Len(raw) : raw[i].vcodec # StrV(<<"none">>)})
            out == call.ret.val.formats
        IN  /\ Len(out) = IF n < 5 THEN n ELSE 5
            /\ \A k \in 1..Len(out) :
                   /\ out[k].vcodec # StrV(<<"none">>)
                   /\ out[k].format_id = raw[VideoAt(raw, k)].format_id
                   /\ out[k].vcodec = raw[VideoAt(raw, k)].vcodec

\* six video descriptors, the tallest one last, one audio-only among them:
\* five summaries, the first of them the first video descriptor
C11_Witness ==
    /\ Projected
    /\ Len(RawFormats) = 6
    /\ RawFormats[1].vcodec = StrV(<<"none">>)
    /\ RawFormats[2].height = IntV(720)
    /\ RawFormats[6].height = IntV(1080)
    /\ Len(call.ret.val.formats) = 5
    /\ call.ret.val.formats[1].format_id = StrV(<<"2">>)

\* M:SS below one hour, H:MM:SS from one hour on
HoursOmitted(d) ==
    LET h == d \div 3600
        m == (d % 3600) \div 60
        sec == d % 60
    IN  IF h = 0 THEN IntChars(m) \o <<":">> \o Pad2(sec)
        ELSE IntChars(h) \o <<":">> \o Pad2(m) \o <<":">> \o Pad2(sec)

\* C12: for a whole-second duration d > 0 the duration_string is H:MM:SS with
\* the hours left out when zero (125 gives "2:05"); an absent or zero duration
\* gives no duration string.
C12_HoursOmittedWhenZero ==
    Projected =>
        LET d == call.arg[1].duration
        IN  IF IsInt(d) /\ d.int > 0
            THEN call.ret.val.duration_string = StrV(HoursOmitted(d.int))
            ELSE call.ret.val.duration_string = None

\* C16: the resolution label is the chosen format's resolution when it has
\* one, otherwise "<height>p" when it has a height, otherwise "unknownp"
\* (also for an empty format list).
C16_ResolutionLabel ==
    Projected =>
        LET raw == RawFormats
            chosen == IF raw = <<>> THEN EmptyFormat
                      ELSE _select_best_format(ListV(raw), call.arg[2]).val
            label == call.ret.val.resolution
        IN  IF IsStr(chosen.resolution) /\ chosen.resolution.str # <<>>
            THEN label = chosen.resolution
            ELSE IF IsInt(chosen.height)
            THEN label = StrV(IntChars(chosen.height.int) \o <<"p">>)
            ELSE label = StrV(<<"u","n","k","n","o","w","n","p">>)

=============================================================================
